---- MODULE Spec2Model ----
(***************************************************************************)
(* Model of the AWS Config rule S3_OBJECT_LOCK_ENABLED                     *)
(* (src/python/S3_OBJECT_LOCK_ENABLED/S3_OBJECT_LOCK_ENABLED.py).          *)
(*                                                                         *)
(* One invocation of evaluate_periodic is a sequential process: parameter  *)
(* validation, the lazy generator get_buckets (paged resource query), one  *)
(* loop body per yielded bucket name, and the final aggregation.  The two  *)
(* AWS collaborators (select_resource_config, get_object_lock_             *)
(* configuration) answer nondeterministically at the moment of each call.  *)
(* Python values are tagged records, Python dicts are functions whose      *)
(* DOMAIN is the set of keys present.                                      *)
(***************************************************************************)
EXTENDS Integers, Sequences, FiniteSets, TLC

VARIABLES
    pc,               \* position of the invocation
    rule_parameters,  \* the parameter mapping object (mutated in place)
    before,           \* the mapping as it was when evaluate_parameters was last entered
    prevalidated,     \* the caller validated the mapping before evaluate_periodic
    err,              \* the exception that ended the run ("" if none)
    evaluations,      \* evaluate_periodic: evaluations
    s3_bucket_name,   \* evaluate_periodic: loop variable
    isexception,      \* evaluate_periodic: isexception
    response,         \* evaluate_periodic: response (kept from the last successful fetch)
    gb_response,      \* get_buckets: response (the current page)
    next_token,       \* get_buckets: next_token
    idx,              \* get_buckets: position of the inner for loop in the page
    queries,          \* number of select_resource_config calls issued
    lateQueries,      \* ... of which issued after a page that carried no usable token
    returned,         \* resource names of every result of every page returned so far
    yielded,          \* names yielded by get_buckets so far
    fetched           \* names passed to get_object_lock_configuration so far

vars == <<pc, rule_parameters, before, prevalidated, err, evaluations,
          s3_bucket_name, isexception, response, gb_response, next_token, idx,
          queries, lateQueries, returned, yielded, fetched>>

----------------------------------------------------------------------------
(* Bounds of the model *)

MaxBuckets == 2
MaxPageLen == 2
MaxPages == 2
MaxDays == 1
MaxYears == 1

(* (years * 365) + days *)
DaysPerYear == 365

----------------------------------------------------------------------------
(* Python values *)

PyInt(n) == [kind |-> "int", n |-> n, s |-> ""]
PyStr(s) == [kind |-> "str", n |-> 0, s |-> s]
PyNone == [kind |-> "NoneType", n |-> 0, s |-> ""]
PyBool(b) == [kind |-> "bool", n |-> IF b THEN 1 ELSE 0, s |-> ""]

(* bool(v), as used by `while next_token` *)
Truthy(v) ==
    CASE v.kind = "bool" -> v.n # 0
      [] v.kind = "int" -> v.n # 0
      [] v.kind = "str" -> v.s # ""
      [] OTHER -> FALSE

(* The integers whose decimal numerals occur in the model. *)
Numerals == (-1)..(DaysPerYear + MaxDays)

(* int(v): parses a decimal numeral, keeps an int, ValueError on any other  *)
(* string, TypeError on None.                                               *)
int(v) ==
    CASE v.kind \in {"int", "bool"} -> [err |-> "", n |-> v.n]
      [] v.kind = "str" ->
            IF \E i \in Numerals : ToString(i) = v.s
            THEN [err |-> "", n |-> CHOOSE i \in Numerals : ToString(i) = v.s]
            ELSE [err |-> "ValueError", n |-> 0]
      [] OTHER -> [err |-> "TypeError", n |-> 0]

(* d.get(k, default) *)
DictGet(d, k, default) == IF k \in DOMAIN d THEN d[k] ELSE default

(* All dicts with keys among K and the value of key k in V[k]. *)
Dicts(K, V) ==
    UNION { {f \in [D -> UNION {V[k] : k \in K}] : \A k \in D : f[k] \in V[k]}
            : D \in SUBSET K }

----------------------------------------------------------------------------
(* rdklib values *)

RESOURCE_TYPE == "AWS::S3::Bucket"
NotPassed == "None"
NoConfigAnnotation == "No ObjectLockConfiguration exist for this bucket."
NoMatchAnnotation == "ObjectLockConfiguration doesn't match."

(* Evaluation(complianceType, resourceId, resourceType, annotation) as an   *)
(* element of a list; wrap = "list" is a Python list holding that one       *)
(* Evaluation.                                                              *)
Evaluation(ct, id, type, ann) ==
    [wrap |-> "Evaluation", complianceType |-> ct, resourceId |-> id,
     resourceType |-> type, annotation |-> ann]
ListOf(ev) == [ev EXCEPT !.wrap = "list"]

----------------------------------------------------------------------------
(* evaluate_parameters *)

(* One `if key in rule_parameters:` block: coerce in place, then range      *)
(* check.  The result holds the mapping as the block leaves it.             *)
CoerceFoldingYears(m, key) ==
    IF key \notin DOMAIN m THEN [err |-> "", map |-> m]
    ELSE LET c == int(m[key]) IN
         CASE c.err = "ValueError" -> [err |-> "InvalidParametersError", map |-> m]
           [] c.err = "TypeError" -> [err |-> "TypeError", map |-> m]
           [] OTHER ->
                LET folded == IF key = "Years" /\ "Days" \in DOMAIN m
                              THEN [m EXCEPT !["Days"] = PyInt(c.n * DaysPerYear + m["Days"].n),
                                             !["Years"] = PyInt(c.n)]
                              ELSE [m EXCEPT ![key] = PyInt(c.n)]
                IN  [err |-> IF c.n < 1 THEN "InvalidParametersError" ELSE "", map |-> folded]

Coerce(m, key) ==
    IF key \notin DOMAIN m THEN [err |-> "", map |-> m]
    ELSE LET c == int(m[key]) IN
         CASE c.err = "ValueError" -> [err |-> "InvalidParametersError", map |-> m]
           [] c.err = "TypeError" -> [err |-> "TypeError", map |-> m]
           [] OTHER ->
                LET m2 == [m EXCEPT ![key] = PyInt(c.n)]
                IN  [err |-> IF c.n < 1 THEN "InvalidParametersError" ELSE "", map |-> m2]

evaluate_parameters(m) ==
    IF "Mode" \notin DOMAIN m THEN [err |-> "InvalidParametersError", map |-> m]
    ELSE LET d == Coerce(m, "Days") IN
         IF d.err # "" THEN d ELSE Coerce(d.map, "Years")

----------------------------------------------------------------------------
(* Inputs *)

ModeValues == {PyStr("GOVERNANCE"), PyStr("COMPLIANCE")}

(* Raw parameter values: ints, their numerals, a non-numeric string, null. *)
RawNumbers(ints, numerals) ==
    {PyInt(n) : n \in ints} \cup {PyStr(ToString(n)) : n \in numerals}
        \cup {PyStr("abc"), PyNone}

RawDays == RawNumbers((0..MaxDays) \cup {DaysPerYear + d : d \in 0..MaxDays}, (-1)..MaxDays)
RawYears == RawNumbers(0..MaxYears, 1..MaxYears)

RawParameters ==
    Dicts({"Mode", "Days", "Years"},
          [k \in {"Mode", "Days", "Years"} |->
              CASE k = "Mode" -> ModeValues
                [] k = "Days" -> RawDays
                [] OTHER -> RawYears])

----------------------------------------------------------------------------
(* The object-lock configuration service *)

EmptyDict == << >>

LockDays == {PyInt(n) : n \in ((-1)..MaxDays) \cup {DaysPerYear}}
LockYears == {PyInt(n) : n \in 0..MaxYears}

Retentions ==
    Dicts({"Mode", "Days", "Years"},
          [k \in {"Mode", "Days", "Years"} |->
              CASE k = "Mode" -> ModeValues
                [] k = "Days" -> LockDays
                [] OTHER -> LockYears])

Rules == {EmptyDict} \cup {[DefaultRetention |-> d] : d \in Retentions}

LockConfigurations ==
    {[ObjectLockEnabled |-> "Enabled"]}
        \cup {[ObjectLockEnabled |-> "Enabled", Rule |-> r] : r \in Rules}

LockResponses ==
    {[ResponseMetadata |-> "md"]}
        \cup {[ResponseMetadata |-> "md", ObjectLockConfiguration |-> c] : c \in LockConfigurations}

(* The binding of `response` once its iteration is over: the loop reads     *)
(* `response` only when the fetch of the current iteration returned (the    *)
(* `or` short-circuits when it raised), so of an earlier iteration's        *)
(* response only the fact that the name is bound is kept.                   *)
StaleResponse == [ResponseMetadata |-> "stale"]
Kept(resp) == IF resp = EmptyDict THEN EmptyDict ELSE StaleResponse

(* What one get_object_lock_configuration call can do: raise, or return. *)
FetchOutcomes ==
    {[raised |-> TRUE, value |-> EmptyDict]}
        \cup {[raised |-> FALSE, value |-> r] : r \in LockResponses}

----------------------------------------------------------------------------
(* evaluate_periodic: the else branch of the loop body *)

(* mode: `if ...get('Rule', 0) != 0: mode = ...['Rule']['DefaultRetention'].get('Mode', None)` *)
LockMode(olc) ==
    IF "Rule" \in DOMAIN olc
    THEN IF "DefaultRetention" \in DOMAIN olc.Rule
         THEN [err |-> "", v |-> DictGet(olc.Rule.DefaultRetention, "Mode", PyNone)]
         ELSE [err |-> "KeyError", v |-> PyNone]
    ELSE [err |-> "", v |-> PyNone]

(* days / years: `if ...get('Rule').get('DefaultRetention').get(key, 0) > 0: x = ...[key]` *)
LockPeriod(olc, key) ==
    IF "Rule" \notin DOMAIN olc \/ "DefaultRetention" \notin DOMAIN olc.Rule
    THEN [err |-> "AttributeError", n |-> 0]
    ELSE LET v == DictGet(olc.Rule.DefaultRetention, key, PyInt(0))
         IN  [err |-> "", n |-> IF v.n > 0 THEN v.n ELSE 0]

(* days_in_param = (years_in_param * 365) + days_in_param *)
RequiredDays(params) ==
    (DictGet(params, "Years", PyInt(0)).n * DaysPerYear) + DictGet(params, "Days", PyInt(0)).n

(* `mode == valid_rule_parameters.get('Mode') and totaldays >= days_in_param` *)
CompliesStrict(params, mode, totaldays) ==
    /\ mode = DictGet(params, "Mode", PyNone)
    /\ totaldays > RequiredDays(params)

Complies(params, mode, totaldays) ==
    /\ mode = DictGet(params, "Mode", PyNone)
    /\ totaldays >= RequiredDays(params)

(* The else branch: the evaluation appended, or the exception raised. *)
EvaluateLock(params, name, resp) ==
    LET olc == resp.ObjectLockConfiguration
        mode == LockMode(olc)
        days == LockPeriod(olc, "Days")
        years == LockPeriod(olc, "Years")
        totaldays == (years.n * DaysPerYear) + days.n
    IN  CASE mode.err # "" -> [err |-> mode.err, ev |-> Evaluation("", "", "", "")]
          [] days.err # "" -> [err |-> days.err, ev |-> Evaluation("", "", "", "")]
          [] years.err # "" -> [err |-> years.err, ev |-> Evaluation("", "", "", "")]
          [] Complies(params, mode.v, totaldays) ->
                [err |-> "", ev |-> Evaluation("COMPLIANT", name, RESOURCE_TYPE, "")]
          [] OTHER ->
                [err |-> "", ev |-> Evaluation("NON_COMPLIANT", name, RESOURCE_TYPE, NoMatchAnnotation)]

----------------------------------------------------------------------------
(* The resource query service *)

BucketName(k) == "bucket-" \o ToString(k)

(* A result is the JSON text of a resource descriptor. *)
JsonDumps(d) == "{\"resourceName\":\"" \o d.resourceName \o "\"}"
Descriptors == {[resourceName |-> BucketName(k)] : k \in 1..(MaxBuckets + 1)}
JsonLoads(text) == CHOOSE d \in Descriptors : JsonDumps(d) = text

(* The results number from + 1 .. from + n, so that every result of a run   *)
(* is distinguishable.                                                      *)
Results(from, n) == [i \in 1..n |-> JsonDumps([resourceName |-> BucketName(from + i)])]

Tokens(more) == {PyStr("")} \cup (IF more THEN {PyStr("token")} ELSE {})

(* The pages select_resource_config may return as call number `call` when   *)
(* `given` results were returned before: a truthy continuation token only   *)
(* while the page sequence may go on.                                       *)
Pages(call, given) ==
    LET lens == 0..(IF MaxBuckets - given < MaxPageLen THEN MaxBuckets - given ELSE MaxPageLen)
    IN  {[Results |-> Results(given, n)] : n \in lens}
            \cup {[Results |-> Results(given, n), NextToken |-> t] :
                    n \in lens, t \in Tokens(call < MaxPages)}

(* The page carries no token the caller can continue with. *)
LastPage(page) == "NextToken" \notin DOMAIN page \/ ~Truthy(page.NextToken)

Names(page) == [i \in 1..Len(page.Results) |-> JsonLoads(page.Results[i]).resourceName]

----------------------------------------------------------------------------
(* The invocation *)

Init ==
    /\ pc = "init"
    /\ rule_parameters \in RawParameters
    /\ before = EmptyDict
    /\ prevalidated = FALSE
    /\ err = ""
    /\ evaluations = << >>
    /\ s3_bucket_name = ""
    /\ isexception = FALSE
    /\ response = EmptyDict
    /\ gb_response = [Results |-> << >>]
    /\ next_token = PyBool(FALSE)
    /\ idx = 0
    /\ queries = 0
    /\ lateQueries = 0
    /\ returned = << >>
    /\ yielded = << >>
    /\ fetched = << >>

(* The caller validates first, as every test does:                         *)
(* rule_parameters = RULE.evaluate_parameters(rule_parameters)             *)
TestValidate ==
    /\ pc = "init"
    /\ ~prevalidated
    /\ LET r == evaluate_parameters(rule_parameters) IN
        /\ before' = rule_parameters
        /\ rule_parameters' = r.map
        /\ err' = r.err
        /\ prevalidated' = (r.err = "")
        /\ pc' = IF r.err = "" THEN "init" ELSE "test_raised"
    /\ UNCHANGED <<evaluations, s3_bucket_name, isexception, response, gb_response,
                   next_token, idx, queries, lateQueries, returned, yielded, fetched>>

(* evaluate_periodic up to the for statement: clients built, evaluations = [], *)
(* the mapping validated, the generator created (not yet started).             *)
CallPeriodic ==
    /\ pc = "init"
    /\ LET r == evaluate_parameters(rule_parameters) IN
        /\ before' = rule_parameters
        /\ rule_parameters' = r.map
        /\ err' = r.err
        /\ pc' = IF r.err = "" THEN "generator" ELSE "raised"
    /\ evaluations' = << >>
    /\ UNCHANGED <<prevalidated, s3_bucket_name, isexception, response, gb_response,
                   next_token, idx, queries, lateQueries, returned, yielded, fetched>>

(* get_buckets, first next(): next_token = True, the first query, the while test. *)
GenStart ==
    /\ pc = "generator"
    /\ next_token' = PyBool(TRUE)
    /\ \E page \in Pages(1, 0) :
        /\ gb_response' = page
        /\ returned' = Names(page)
    /\ queries' = 1
    /\ idx' = 1
    /\ pc' = "for"
    /\ before' = EmptyDict
    /\ prevalidated' = FALSE
    /\ UNCHANGED <<rule_parameters, err, evaluations, s3_bucket_name,
                   isexception, response, lateQueries, yielded, fetched>>

(* get_buckets: `for result in response['Results']: yield json.loads(result)['resourceName']` *)
GenYield ==
    /\ pc = "for"
    /\ idx <= Len(gb_response.Results)
    /\ s3_bucket_name' = JsonLoads(gb_response.Results[idx]).resourceName
    /\ yielded' = Append(yielded, s3_bucket_name')
    /\ idx' = idx + 1
    /\ pc' = "body"
    /\ isexception' = FALSE
    /\ response' = Kept(response)
    /\ UNCHANGED <<rule_parameters, before, prevalidated, err, evaluations,
                   gb_response, next_token, queries, lateQueries, returned, fetched>>

(* get_buckets: the page is used up and carries the key NextToken: the query is *)
(* re-issued with it, then the while test.                                      *)
GenNextPage ==
    /\ pc = "for"
    /\ idx > Len(gb_response.Results)
    /\ "NextToken" \in DOMAIN gb_response
    /\ next_token' = gb_response.NextToken
    /\ \E page \in Pages(queries + 1, Len(returned)) :
        /\ gb_response' = page
        /\ returned' = returned \o Names(page)
    /\ queries' = queries + 1
    /\ lateQueries' = IF LastPage(gb_response) THEN lateQueries + 1 ELSE lateQueries
    /\ idx' = 1
    /\ pc' = IF Truthy(next_token') THEN "for" ELSE "finish"
    /\ response' = Kept(response)
    /\ UNCHANGED <<rule_parameters, before, prevalidated, err, evaluations, s3_bucket_name,
                   isexception, yielded, fetched>>

(* get_buckets: the page is used up and has no key NextToken: next_token = False. *)
GenExhausted ==
    /\ pc = "for"
    /\ idx > Len(gb_response.Results)
    /\ "NextToken" \notin DOMAIN gb_response
    /\ next_token' = PyBool(FALSE)
    /\ pc' = "finish"
    /\ response' = Kept(response)
    /\ UNCHANGED <<rule_parameters, before, prevalidated, err, evaluations, s3_bucket_name,
                   isexception, gb_response, idx, queries, lateQueries, returned,
                   yielded, fetched>>

(* evaluate_periodic: one loop body: the fetch and the bucket's evaluation. *)
Body ==
    /\ pc = "body"
    /\ fetched' = Append(fetched, s3_bucket_name)
    /\ \E out \in FetchOutcomes :
        /\ isexception' = out.raised
        /\ response' = IF out.raised THEN response ELSE out.value
        /\ IF out.raised \/ "ObjectLockConfiguration" \notin DOMAIN response'
           THEN /\ evaluations' = Append(evaluations,
                        Evaluation("NON_COMPLIANT", s3_bucket_name, RESOURCE_TYPE, NoConfigAnnotation))
                /\ pc' = "for"
                /\ err' = err
           ELSE LET r == EvaluateLock(rule_parameters, s3_bucket_name, response') IN
                /\ evaluations' = IF r.err = "" THEN Append(evaluations, r.ev) ELSE evaluations
                /\ pc' = IF r.err = "" THEN "for" ELSE "raised"
                /\ err' = r.err
    /\ UNCHANGED <<rule_parameters, before, prevalidated, s3_bucket_name, gb_response,
                   next_token, idx, queries, lateQueries, returned, yielded>>

(* evaluate_periodic: `if not evaluations: evaluations.append([Evaluation(NOT_APPLICABLE)])`, return. *)
Finish ==
    /\ pc = "finish"
    /\ evaluations' = IF evaluations = << >>
                      THEN Append(evaluations, ListOf(Evaluation("NOT_APPLICABLE", NotPassed, NotPassed, "")))
                      ELSE evaluations
    /\ pc' = "done"
    /\ UNCHANGED <<rule_parameters, before, prevalidated, err, s3_bucket_name, isexception,
                   response, gb_response, next_token, idx, queries, lateQueries, returned,
                   yielded, fetched>>

Next ==
    \/ TestValidate
    \/ CallPeriodic
    \/ GenStart
    \/ GenYield
    \/ GenNextPage
    \/ GenExhausted
    \/ Body
    \/ Finish

Spec == Init /\ [][Next]_vars

----------------------------------------------------------------------------
(* Vocabulary of the properties *)

Last(seq) == seq[Len(seq)]
IsPrefix(a, b) == Len(a) <= Len(b) /\ SubSeq(b, 1, Len(a)) = a

ValidationErrors == {"InvalidParametersError", "TypeError"}

(* `response` is the answer to the fetch of the bucket named last in `fetched`. *)
FetchReturned == ~isexception /\ response # EmptyDict /\ response # StaleResponse

HasConfiguration == FetchReturned /\ "ObjectLockConfiguration" \in DOMAIN response

HasDefaultRetention ==
    /\ HasConfiguration
    /\ "Rule" \in DOMAIN response.ObjectLockConfiguration
    /\ "DefaultRetention" \in DOMAIN response.ObjectLockConfiguration.Rule

Retention == response.ObjectLockConfiguration.Rule.DefaultRetention

(* The bucket state of the specification: absent or non-positive counts as 0, *)
(* an absent mode is none.                                                    *)
StateCount(d, k) == IF k \in DOMAIN d /\ d[k].n > 0 THEN d[k].n ELSE 0
StateMode(d) == IF "Mode" \in DOMAIN d THEN d["Mode"] ELSE PyNone
ParamCount(k) == IF k \in DOMAIN rule_parameters THEN rule_parameters[k].n ELSE 0

(* The last bucket fetched has its evaluation, and it is `ev`. *)
Emitted(ev) ==
    /\ pc # "raised"
    /\ Len(evaluations) = Len(fetched)
    /\ Len(evaluations) > 0
    /\ Last(evaluations) = ev

----------------------------------------------------------------------------
(* C1: a bucket whose fetch returned an ObjectLockConfiguration with a       *)
(* default-retention rule gets COMPLIANT exactly when its mode equals the    *)
(* Mode parameter and years * 365 + days >= Years * 365 + Days (absent       *)
(* counted as 0), and otherwise NON_COMPLIANT with the annotation            *)
(* "ObjectLockConfiguration doesn't match."; evaluating it never raises.     *)
C1_Verdict ==
    HasDefaultRetention =>
        LET matches ==
                /\ StateMode(Retention) = rule_parameters["Mode"]
                /\ StateCount(Retention, "Years") * 365 + StateCount(Retention, "Days")
                      >= ParamCount("Years") * 365 + ParamCount("Days")
        IN  IF matches
            THEN Emitted(Evaluation("COMPLIANT", Last(fetched), RESOURCE_TYPE, ""))
            ELSE Emitted(Evaluation("NON_COMPLIANT", Last(fetched), RESOURCE_TYPE,
                                    "ObjectLockConfiguration doesn't match."))

(* The second bucket of a run is COMPLIANT on the boundary: one year of      *)
(* retention against a required 365 days.                                    *)
C1_Witness ==
    /\ HasDefaultRetention
    /\ Len(fetched) = 2
    /\ Len(evaluations) = 2
    /\ Last(evaluations).complianceType = "COMPLIANT"
    /\ StateCount(Retention, "Years") = 1
    /\ StateCount(Retention, "Days") = 0
    /\ "Years" \notin DOMAIN rule_parameters
    /\ ParamCount("Days") = 365

(* C2: an empty bucket enumeration returns exactly one element, which is    *)
(* itself a NOT_APPLICABLE Evaluation without resource id, not a list.      *)
C2_NotApplicable ==
    (pc = "done" /\ yielded = << >>) =>
        /\ Len(evaluations) = 1
        /\ evaluations[1].wrap = "Evaluation"
        /\ evaluations[1].complianceType = "NOT_APPLICABLE"
        /\ evaluations[1].resourceId = NotPassed

(* C3: a bucket whose fetch raised, or whose response has no                 *)
(* ObjectLockConfiguration, gets NON_COMPLIANT "No ObjectLockConfiguration   *)
(* exist for this bucket." and the run is not aborted: every bucket          *)
(* enumerated after it is fetched and evaluated.                             *)
C3_FetchFailure ==
    /\ (/\ pc \in {"for", "finish", "done"}
        /\ fetched # << >>
        /\ isexception \/ (FetchReturned /\ ~HasConfiguration))
          => Emitted(Evaluation("NON_COMPLIANT", Last(fetched), RESOURCE_TYPE,
                                "No ObjectLockConfiguration exist for this bucket."))
    /\ (\E i \in 1..Len(evaluations) :
            evaluations[i].annotation = "No ObjectLockConfiguration exist for this bucket.")
          => /\ pc # "raised"
             /\ pc = "done" => (fetched = yielded /\ Len(evaluations) = Len(yielded))

(* A value that is not a positive integer: not coercible, or coercible and < 1. *)
NotPositiveInteger(v) == int(v).err # "" \/ int(v).n < 1

(* C4: a mapping whose Days or Years is present and not a positive integer  *)
(* fails validation with InvalidParametersError and nothing else.           *)
C4_ParameterError ==
    (/\ pc \in {"init", "test_raised", "generator", "raised"}
     /\ \E k \in {"Days", "Years"} \cap DOMAIN before : NotPositiveInteger(before[k]))
        => err = "InvalidParametersError"

(* C5: when validation fails, evaluate_periodic raises the parameter error  *)
(* before any resource query and any fetch, and returns no evaluations.     *)
C5_FailsFirst ==
    /\ (pc = "raised" /\ err \in ValidationErrors) =>
            /\ err = "InvalidParametersError"
            /\ queries = 0
            /\ fetched = << >>
            /\ evaluations = << >>
    /\ (pc \in {"generator", "raised"} /\ before # EmptyDict /\ "Mode" \notin DOMAIN before) =>
            (pc = "raised" /\ err = "InvalidParametersError")

(* C6: get_buckets yields every result of every returned page exactly once, *)
(* in order, and requests no page after a page without a usable token.      *)
C6_Pagination ==
    /\ IsPrefix(yielded, returned)
    /\ lateQueries = 0
    /\ pc \in {"finish", "done"} => yielded = returned

(* C7: for a non-empty enumeration b1..bn each bucket is fetched exactly    *)
(* once, in order, and evaluate_periodic returns n evaluations, the i-th    *)
(* for bi with resource type AWS::S3::Bucket, none NOT_APPLICABLE.          *)
C7_OnePerBucket ==
    /\ IsPrefix(fetched, yielded)
    /\ Len(yielded) <= Len(fetched) + 1
    /\ (yielded # << >> /\ pc \in {"done", "raised"}) =>
            /\ pc = "done"
            /\ fetched = yielded
            /\ Len(evaluations) = Len(yielded)
            /\ \A i \in 1..Len(evaluations) :
                    /\ evaluations[i].wrap = "Evaluation"
                    /\ evaluations[i].resourceId = yielded[i]
                    /\ evaluations[i].resourceType = "AWS::S3::Bucket"
                    /\ evaluations[i].complianceType # "NOT_APPLICABLE"

(* The response has an ObjectLockConfiguration without default-retention    *)
(* rule: no Rule, or a rule with none of Mode, Days, Years.                 *)
NoRetentionRule ==
    /\ HasConfiguration
    /\ \/ "Rule" \notin DOMAIN response.ObjectLockConfiguration
       \/ "DefaultRetention" \notin DOMAIN response.ObjectLockConfiguration.Rule
       \/ DOMAIN response.ObjectLockConfiguration.Rule.DefaultRetention = {}

(* C8: such a bucket counts as mode none, 0 days, 0 years: it gets           *)
(* NON_COMPLIANT "ObjectLockConfiguration doesn't match." without raising.  *)
C8_NoRule ==
    NoRetentionRule =>
        Emitted(Evaluation("NON_COMPLIANT", Last(fetched), RESOURCE_TYPE,
                           "ObjectLockConfiguration doesn't match."))

(* C9: a failed validation leaves the mapping as it was; a successful one   *)
(* leaves Mode and the keys as they were, Days and Years integers >= 1.     *)
C9_NoSideEffect ==
    /\ (pc \in {"test_raised", "raised"} /\ err = "InvalidParametersError")
          => rule_parameters = before
    /\ (pc = "generator" \/ (pc = "init" /\ prevalidated)) =>
          /\ DOMAIN rule_parameters = DOMAIN before
          /\ rule_parameters["Mode"] = before["Mode"]
          /\ \A k \in {"Days", "Years"} \cap DOMAIN rule_parameters :
                rule_parameters[k].kind = "int" /\ rule_parameters[k].n >= 1

(* C10: validating an accepted mapping again succeeds and changes nothing,  *)
(* so the validation inside evaluate_periodic of a mapping the caller has   *)
(* validated never raises and evaluates with the same mapping.              *)
C10_Idempotent ==
    /\ (pc = "generator" \/ (pc = "init" /\ prevalidated)) =>
          evaluate_parameters(rule_parameters) = [err |-> "", map |-> rule_parameters]
    /\ (prevalidated /\ pc \in {"generator", "raised"}) =>
          (pc = "generator" /\ err = "" /\ rule_parameters = before)

(* evaluate_periodic has validated, a second time, a mapping with Days and  *)
(* Years that the caller had validated before.                              *)
C10_Witness ==
    /\ prevalidated
    /\ pc = "generator"
    /\ {"Days", "Years"} \subseteq DOMAIN rule_parameters
    /\ rule_parameters = before

====
